---- MODULE Spec2Model ----
(***************************************************************************)
(* Telemetry Normalizer of f1-2025-analysis: the four clean-up scripts     *)
(* Ver_analysis.py, Ham_analysis.py, lec_analyse.py and                    *)
(* global_player_csv_clean.py, run over one driver directory of per-lap    *)
(* CSV files.  Each script first writes an inspection report, then merges, *)
(* cleans, sorts and writes the canonical per-driver CSV.  The all-drivers *)
(* script does so for every entry of the base directory in turn.  The      *)
(* dashboards load the canonical CSVs, rank the laps and compare two laps. *)
(*                                                                         *)
(* The characters of a file name are a sequence of one-character strings   *)
(* so that Python's string operations (sorted, endswith, replace,          *)
(* re.search, int) can be computed the way the interpreter computes them.  *)
(* An optional value is a sequence of length 0 (NaN / null) or 1 (the      *)
(* value).                                                                 *)
(*                                                                         *)
(* Lap Delta Engine: the comparison sections of the dashboards             *)
(* compare_player.py and analyse_player/*.py, which resample two laps onto *)
(* a common distance grid and accumulate their pace difference.  Distances *)
(* on the grid and interpolated speeds are exact fractions; the quotient   *)
(* 1/velocity is rounded to the nearest 1/PaceScale s/m.                   *)
(***************************************************************************)
EXTENDS Integers, Sequences, FiniteSets, TLC

VARIABLES script, dirExists, header, files, artifact, report, csv_files,
          pc, wrote, rerun, before,
          dashboard, d1, d2, dist_common, delta_time, earlier, view,
          df_driver, df1, df2, lap_times, offered,
          driver_path, entries, written, combined_df, summary_list

\* the main loop of the all-drivers script: the entry of the base directory it
\* is visiting, the entries it has yet to visit, the outputs of the entries
\* visited, and the two variables that live across the iterations
loopVars == <<driver_path, entries, written, combined_df, summary_list>>

\* the state of a Normalizer run
normVars == <<script, dirExists, header, files, artifact, report, csv_files,
              pc, wrote, rerun, before, loopVars>>

\* the canonical artifacts a dashboard has loaded and its ranking of the laps
loadVars == <<df_driver, df1, df2, lap_times, offered>>

\* the state of a dashboard's lap comparison
dashVars == <<dashboard, d1, d2, dist_common, delta_time, earlier, view, loadVars>>

vars == <<normVars, dashVars>>

----------------------------------------------------------------------------
(* Bounds of the model *)

\* largest size of a driver directory: the number of raw records in all its
\* files together, an entry without records (an empty or unparsable lap file,
\* a file that is no lap file) counting as one
MaxSize == 2

----------------------------------------------------------------------------
(* Python strings *)

\* the characters that occur in the file names, in code-point order
Alphabet == <<".", "0", "1", "2", "3", "4", "5", "6", "7", "8", "9", "_",
              "a", "c", "l", "m", "n", "o", "p", "r", "s", "t", "u", "v", "w", "x">>

Ord(c) == CHOOSE i \in 1..Len(Alphabet) : Alphabet[i] = c

Digits == {"0", "1", "2", "3", "4", "5", "6", "7", "8", "9"}

DigitVal(c) == Ord(c) - Ord("0")

\* s < t for Python str: lexicographic by code point
RECURSIVE StrLess(_, _)
StrLess(s, t) ==
  IF t = <<>> THEN FALSE
  ELSE IF s = <<>> THEN TRUE
  ELSE IF Ord(Head(s)) < Ord(Head(t)) THEN TRUE
  ELSE IF Ord(Head(s)) > Ord(Head(t)) THEN FALSE
  ELSE StrLess(Tail(s), Tail(t))

StartsWith(s, p) == Len(s) >= Len(p) /\ SubSeq(s, 1, Len(p)) = p

\* str.endswith
EndsWith(s, p) == Len(s) >= Len(p) /\ SubSeq(s, Len(s) - Len(p) + 1, Len(s)) = p

\* str.replace(old, ""): every non-overlapping occurrence, left to right
RECURSIVE Remove(_, _)
Remove(s, old) ==
  IF s = <<>> THEN <<>>
  ELSE IF StartsWith(s, old) THEN Remove(SubSeq(s, Len(old) + 1, Len(s)), old)
  ELSE <<Head(s)>> \o Remove(Tail(s), old)

\* value of a run of decimal digits
RECURSIVE DecValue(_, _)
DecValue(s, acc) ==
  IF s = <<>> THEN acc ELSE DecValue(Tail(s), 10 * acc + DigitVal(Head(s)))

\* the longest prefix of s made of digits: what (\d+) matches at this place
RECURSIVE DigitRun(_)
DigitRun(s) ==
  IF s = <<>> \/ Head(s) \notin Digits THEN <<>>
  ELSE <<Head(s)>> \o DigitRun(Tail(s))

\* a lap number that could not be computed: the statement raised
ValueError == -1

\* int(s) for the strings that occur here: digits only, else ValueError
PyInt(s) ==
  IF s # <<>> /\ \A i \in 1..Len(s) : s[i] \in Digits THEN DecValue(s, 0)
  ELSE ValueError

\* re.search(r'(\d+)', s): the leftmost run of digits, or no match (<<>>)
RECURSIVE SearchDigits(_)
SearchDigits(s) ==
  IF s = <<>> THEN <<>>
  ELSE IF Head(s) \in Digits THEN DigitRun(s)
  ELSE SearchDigits(Tail(s))

lap_ == <<"l", "a", "p", "_">>
dot_csv == <<".", "c", "s", "v">>

\* re.search(r'lap_(\d+)', s): group 1 of the leftmost match, or no match
RECURSIVE SearchLapDigits(_)
SearchLapDigits(s) ==
  IF s = <<>> THEN <<>>
  ELSE IF StartsWith(s, lap_) /\ DigitRun(SubSeq(s, 5, Len(s))) # <<>>
       THEN DigitRun(SubSeq(s, 5, Len(s)))
  ELSE SearchLapDigits(Tail(s))

\* the names an entry of a driver directory is drawn from
NamePool == {"lap_2.csv", "lap_10.csv", "2.csv", "warmup.csv", "notes.txt"}

\* the characters of a file name
Chars(n) ==
  CASE n = "lap_2.csv" -> <<"l", "a", "p", "_", "2", ".", "c", "s", "v">>
    [] n = "lap_10.csv" -> <<"l", "a", "p", "_", "1", "0", ".", "c", "s", "v">>
    [] n = "2.csv" -> <<"2", ".", "c", "s", "v">>
    [] n = "warmup.csv" -> <<"w", "a", "r", "m", "u", "p", ".", "c", "s", "v">>
    [] n = "notes.txt" -> <<"n", "o", "t", "e", "s", ".", "t", "x", "t">>

\* a < b for the file names, and f.endswith(".csv"), tabulated
NameLess == [a \in NamePool |-> [b \in NamePool |-> StrLess(Chars(a), Chars(b))]]
IsCsv == [f \in NamePool |-> EndsWith(Chars(f), dot_csv)]

\* sorted(list of file names)
RECURSIVE InsertName(_, _)
InsertName(srt, n) ==
  IF srt = <<>> THEN <<n>>
  ELSE IF NameLess[n][Head(srt)] THEN <<n>> \o srt
  ELSE <<Head(srt)>> \o InsertName(Tail(srt), n)

\* the list left in the order os.listdir returned it
as_listed(l) == l

RECURSIVE sorted(_)
sorted(l) == IF l = <<>> THEN <<>> ELSE InsertName(sorted(Tail(l)), Head(l))

\* [f for f in l if f.endswith(".csv")]
RECURSIVE OnlyCsv(_)
OnlyCsv(l) ==
  IF l = <<>> THEN <<>>
  ELSE IF IsCsv[Head(l)] THEN <<Head(l)>> \o OnlyCsv(Tail(l))
  ELSE OnlyCsv(Tail(l))

----------------------------------------------------------------------------
(* Lap files and driver directories *)

Null == <<>>
Some(v) == <<v>>

Scripts == {"VER", "HAM", "LEC", "GLOBAL"}

\* the driver code each script tags its records with; the all-drivers script
\* uses the name of the directory it is visiting
driver_code(sc) ==
  CASE sc = "VER" -> "VER"
    [] sc = "HAM" -> "HAM"
    [] sc = "LEC" -> "LEC"
    [] sc = "GLOBAL" -> driver_path

\* the optional columns of a lap file that the clean-up looks at
OptCols == {"DriverAhead", "DistanceToDriverAhead", "SessionTime"}

\* the spellings a producer may give these columns in the header of a lap file
Spellings == OptCols \cup {"driverahead", "distancetodriverahead", "sessiontime"}

\* str.lower() of the column names
Lower(c) ==
  CASE c \in {"DriverAhead", "driverahead"} -> "driverahead"
    [] c \in {"DistanceToDriverAhead", "distancetodriverahead"} -> "distancetodriverahead"
    [] c \in {"SessionTime", "sessiontime"} -> "sessiontime"
    [] c = "Driver" -> "driver"
    [] c = "LapNumber" -> "lapnumber"

\* the header h has column c under some spelling
HasCol(h, c) == \E n \in h : Lower(n) = Lower(c)

\* SessionTime in a lap file is a duration "0 days 00:MM:SS", kept as <<MM, SS>>
Durations == {<<0, 59>>, <<1, 5>>}

\* the raw records a file with header h can hold (a column that is absent
\* has no value)
RawRows(h) ==
  [DriverAhead : IF HasCol(h, "DriverAhead") THEN {Null, Some("HAM")} ELSE {Null},
   DistanceToDriverAhead : IF HasCol(h, "DistanceToDriverAhead") THEN {Null, Some(5)} ELSE {Null},
   SessionTime : IF HasCol(h, "SessionTime") THEN {Some(d) : d \in Durations} ELSE {Null}]

\* a file pd.read_csv cannot parse
Unparsable == [ok |-> FALSE, rows |-> <<>>]

\* the names of S in sorted order
SortedSeqOf(S) == sorted(CHOOSE l \in [1..Cardinality(S) -> S] : \A n \in S : \E i \in DOMAIN l : l[i] = n)

\* number of records of the files ns, sizes[n] being the number of records
\* of n (-1: not parsable)
RECURSIVE SumSizes(_, _)
SumSizes(sizes, ns) ==
  IF ns = <<>> THEN 0
  ELSE (IF sizes[Head(ns)] > 0 THEN sizes[Head(ns)] ELSE 0) + SumSizes(sizes, Tail(ns))

\* size of a directory
RECURSIVE DirSize(_, _)
DirSize(sizes, ns) ==
  IF ns = <<>> THEN 0
  ELSE (IF sizes[Head(ns)] > 0 THEN sizes[Head(ns)] ELSE 1) + DirSize(sizes, Tail(ns))

\* the records before those of file n when all records are laid end to end
RECURSIVE Offset(_, _, _)
Offset(sizes, ns, n) ==
  IF Head(ns) = n THEN 0
  ELSE (IF sizes[Head(ns)] > 0 THEN sizes[Head(ns)] ELSE 0) + Offset(sizes, Tail(ns), n)

\* os.listdir returns the entries in arbitrary order
Listings(S) ==
  {l \in [1..Cardinality(S) -> S] : \A i, j \in 1..Cardinality(S) : l[i] = l[j] => i = j}

----------------------------------------------------------------------------
(* The files the scripts write *)

\* the folder of the lap files of the driver
driver_folder == "F1_Data/Australia2025/<driver_code>"

\* report_file = os.path.join(report_folder, f"{driver_full_name}.txt")
report_file == [folder |-> "report", name |-> "<driver_full_name>.txt"]

\* the cleaned CSV saved next to the lap files
sorted_cleaned_csv_in_driver_folder ==
  [folder |-> driver_folder, name |-> "Australia2025_<driver_code>_cleaned_sorted.csv"]

\* sorted_cleaned_csv = os.path.join(cleaned_folder,
\*                                   f"Australia2025_{driver_code}_cleaned_sorted.csv")
sorted_cleaned_csv ==
  [folder |-> "cleaned_Csv", name |-> "Australia2025_<driver_code>_cleaned_sorted.csv"]

\* the lap directory dir after a file is written (open(path, "w"), to_csv) at
\* path: as it was, unless the path lies in the lap directory
write_file(dir, path) ==
  IF path.folder = driver_folder
  THEN [n \in DOMAIN dir \cup {path.name} |->
          IF n = path.name THEN [ok |-> FALSE, rows |-> <<>>] ELSE dir[n]]
  ELSE dir

NoFile == [exists |-> FALSE, cols |-> {}, rows |-> <<>>]

NoReport == [exists |-> FALSE, absence |-> FALSE, failed |-> <<>>,
             context |-> <<>>, summary |-> <<>>, total |-> Null]

\* what to_csv(index=False) puts in the file: the records without provenance
Bytes(a) ==
  [exists |-> a.exists,
   cols |-> a.cols,
   rows |-> [i \in 1..Len(a.rows) |->
               [Driver |-> a.rows[i].Driver,
                LapNumber |-> a.rows[i].LapNumber,
                DriverAhead |-> a.rows[i].DriverAhead,
                DistanceToDriverAhead |-> a.rows[i].DistanceToDriverAhead,
                SessionTime |-> a.rows[i].SessionTime]]]

\* pd.DataFrame(): a table without records (laps: the records by lap number)
NoFrame == [exists |-> FALSE, laps |-> <<>>]

\* no canonical artifact is loaded and no lap is ranked
NothingLoaded ==
  /\ df_driver = NoFrame /\ df1 = NoFrame /\ df2 = NoFrame
  /\ lap_times = <<>> /\ offered = <<>>

\* no dashboard is open
DashboardClosed ==
  /\ dashboard = "none"
  /\ d1 = <<>> /\ d2 = <<>>
  /\ dist_common = <<>> /\ delta_time = <<>> /\ earlier = <<>>
  /\ view = "closed"
  /\ NothingLoaded

\* one driver directory, NOR's for the all-drivers script, is all there is to
\* visit
OneDirectory ==
  /\ driver_path = "NOR" /\ entries = <<>> /\ written = <<>>
  /\ combined_df = <<>> /\ summary_list = <<>>

\* the state before a script is started: any script, over a driver directory
\* that is missing or holds entries named from Names whose lap files have one
\* of the headers Headers
InitOver(Headers, Names) ==
  /\ DashboardClosed
  /\ OneDirectory
  /\ script \in Scripts
  /\ dirExists \in BOOLEAN
  /\ IF dirExists
     THEN /\ header \in Headers
          /\ \E names \in {S \in SUBSET Names : Cardinality(S) <= MaxSize} :
               LET ns == SortedSeqOf(names) IN
               \E sizes \in [names -> -1..MaxSize] :
                 /\ "notes.txt" \in names => sizes["notes.txt"] = -1
                 /\ DirSize(sizes, ns) <= MaxSize
                 /\ \E flat \in [1..SumSizes(sizes, ns) -> RawRows(header)] :
                      files = [n \in names |->
                                 IF sizes[n] = -1 THEN Unparsable
                                 ELSE [ok |-> TRUE,
                                       rows |-> SubSeq(flat, Offset(sizes, ns, n) + 1,
                                                       Offset(sizes, ns, n) + sizes[n])]]
     ELSE /\ header = {}
          /\ files = <<>>
  /\ artifact = NoFile
  /\ report = NoReport
  /\ csv_files = <<>>
  /\ pc = "start"
  /\ wrote = FALSE
  /\ rerun = FALSE
  /\ before = NoFile

\* lap files with the column names of the producer (main.py)
Init == InitOver(SUBSET OptCols, NamePool)

\* the headers that have every optional column, each under one spelling
CasedHeaders ==
  {h \in SUBSET Spellings :
     \A c \in OptCols : Cardinality({n \in h : Lower(n) = Lower(c)}) = 1}

\* lap files lap_<n>.csv whose column names differ from the producer's at most
\* in letter case
InitCase == InitOver(CasedHeaders, {"lap_2.csv", "lap_10.csv"})

----------------------------------------------------------------------------
(* pandas operations used by the clean-up *)

\* find_col(df, target): the column whose lower-cased name is that of target,
\* Null (None) when there is none
find_col(cols, target) ==
  IF \E c \in cols : Lower(c) = Lower(target)
  THEN Some(CHOOSE c \in cols : Lower(c) = Lower(target))
  ELSE Null

\* pd.to_timedelta(d).total_seconds()
total_seconds(d) == 60 * d[1] + d[2]

\* df[col].isna().sum()
RECURSIVE isna_sum(_)
isna_sum(rows) ==
  IF rows = <<>> THEN 0
  ELSE (IF Head(rows).DriverAhead = Null THEN 1 ELSE 0) + isna_sum(Tail(rows))

\* df["Driver"] = driver_code; df["LapNumber"] = lap_number, for the records of
\* file f (src is the provenance of a record, not a column)
Tag(f, drv, lap) ==
  [i \in 1..Len(files[f].rows) |->
     [src |-> [file |-> f, idx |-> i],
      Driver |-> drv,
      LapNumber |-> lap,
      DriverAhead |-> files[f].rows[i].DriverAhead,
      DistanceToDriverAhead |-> files[f].rows[i].DistanceToDriverAhead,
      SessionTime |-> files[f].rows[i].SessionTime]]

\* the merged table replaced by the newest file instead of extended by it
concat_overwrite(combined, df) == df

\* pd.concat([combined, df], ignore_index=True)
concat(combined, df) == combined \o df

\* the column left as read
fillna_skipped(rows) == rows

\* combined[da_col].fillna("None")
fillna(rows) ==
  [i \in 1..Len(rows) |->
     IF rows[i].DriverAhead = Null
     THEN [rows[i] EXCEPT !.DriverAhead = Some("None")]
     ELSE rows[i]]

\* combined.loc[combined[da_col] == "None", dist_col] = None
clear_gap(rows) ==
  [i \in 1..Len(rows) |->
     IF rows[i].DriverAhead = Some("None")
     THEN [rows[i] EXCEPT !.DistanceToDriverAhead = Null]
     ELSE rows[i]]

\* pd.to_timedelta(combined[time_col]).dt.total_seconds()
to_seconds(rows) ==
  [i \in 1..Len(rows) |->
     [rows[i] EXCEPT !.SessionTime = Some(total_seconds(rows[i].SessionTime[1]))]]

\* row a sorts strictly before row b under by=["LapNumber", time] (byTime) or
\* by=["LapNumber", "LapNumber"]
KeyLess(a, b, byTime) ==
  \/ a.LapNumber < b.LapNumber
  \/ /\ byTime
     /\ a.LapNumber = b.LapNumber
     /\ a.SessionTime[1] < b.SessionTime[1]

\* a record put before the records already placed that have the same key
RECURSIVE InsertRow_before_ties(_, _, _)
InsertRow_before_ties(srt, r, byTime) ==
  IF srt = <<>> THEN <<r>>
  ELSE IF ~KeyLess(Head(srt), r, byTime) THEN <<r>> \o srt
  ELSE <<Head(srt)>> \o InsertRow_before_ties(Tail(srt), r, byTime)

\* sort_values with more than one key is a stable sort: a record goes after
\* every record already placed whose key is not greater
RECURSIVE InsertRow(_, _, _)
InsertRow(srt, r, byTime) ==
  IF srt = <<>> THEN <<r>>
  ELSE IF KeyLess(r, Head(srt), byTime) THEN <<r>> \o srt
  ELSE <<Head(srt)>> \o InsertRow(Tail(srt), r, byTime)

RECURSIVE sort_rows(_, _, _)
sort_rows(rows, n, byTime) ==
  IF n = 0 THEN <<>>
  ELSE InsertRow(sort_rows(rows, n - 1, byTime), rows[n], byTime)

sort_values(rows, byTime) == sort_rows(rows, Len(rows), byTime)

----------------------------------------------------------------------------
(* Lap number of a file name *)

\* Ver_analysis.py: first run of digits anywhere in the name, else 0
VerLapNumber(f) ==
  LET lap_match == SearchDigits(Chars(f))
  IN IF lap_match # <<>> THEN DecValue(lap_match, 0) ELSE 0

\* Ham_analysis.py, global_player_csv_clean.py:
\* int(filename.replace("lap_", "").replace(".csv", ""))
HamLapNumber(f) == PyInt(Remove(Remove(Chars(f), lap_), dot_csv))

\* lec_analyse.py: digits after "lap_", else 0
LecLapNumber(f) ==
  LET lap_match == SearchLapDigits(Chars(f))
  IN IF lap_match # <<>> THEN DecValue(lap_match, 0) ELSE 0

\* the lap number each script derives from each name, tabulated
LapNumbers ==
  [sc \in Scripts |->
     [f \in NamePool |->
        CASE sc = "VER" -> VerLapNumber(f)
          [] sc = "LEC" -> LecLapNumber(f)
          [] sc \in {"HAM", "GLOBAL"} -> HamLapNumber(f)]]

lap_number(sc, f) == LapNumbers[sc][f]

\* the merge loop over the lap files: each file is read (pd.read_csv raises on
\* a file it cannot parse), tagged and appended.  raised: an exception left
\* the loop; frames: number of files read.
RECURSIVE MergeLoop(_, _, _)
MergeLoop(sc, fs, combined) ==
  IF fs = <<>> THEN [raised |-> FALSE, rows |-> combined]
  ELSE IF ~files[Head(fs)].ok \/ lap_number(sc, Head(fs)) = ValueError
       THEN [raised |-> TRUE, rows |-> combined]
  ELSE MergeLoop(sc, Tail(fs),
                 concat(combined, Tag(Head(fs), driver_code(sc), lap_number(sc, Head(fs)))))

----------------------------------------------------------------------------
(* PART 1: the inspection report *)

\* the files inspect_csv reports as "Failed to read CSV", in inspection order
RECURSIVE FailedToRead(_)
FailedToRead(fs) ==
  IF fs = <<>> THEN <<>>
  ELSE (IF files[Head(fs)].ok THEN <<>> ELSE <<Head(fs)>>) \o FailedToRead(Tail(fs))

\* what inspect_csv appends to driverahead_summary for file f: nothing for a
\* file that failed to parse or is empty; the count of missing DriverAhead
\* values; or (VER, LEC) None when the column is not found
inspect_csv(sc, f) ==
  IF ~files[f].ok \/ Len(files[f].rows) = 0 THEN <<>>
  ELSE IF sc \in {"VER", "LEC"}
       THEN IF find_col(header, "DriverAhead") # Null
            THEN <<[file |-> f, miss |-> Some(isna_sum(files[f].rows))]>>
            ELSE <<[file |-> f, miss |-> Null]>>
  ELSE IF "DriverAhead" \in header
       THEN <<[file |-> f, miss |-> Some(isna_sum(files[f].rows))]>>
       ELSE <<>>

RECURSIVE driverahead_summary(_, _)
driverahead_summary(sc, fs) ==
  IF fs = <<>> THEN <<>>
  ELSE inspect_csv(sc, Head(fs)) \o driverahead_summary(sc, Tail(fs))

\* Python's min(a, b)
min(a, b) == IF b < a THEN b ELSE a

\* Python's max(a, b)
max(a, b) == IF b > a THEN b ELSE a

\* df[df[da_col].isna()].index.tolist(): the positions (from 0) of the records
\* from the i-th on whose car-ahead is null
RECURSIVE nan_indices(_, _)
nan_indices(rows, i) ==
  IF i > Len(rows) THEN <<>>
  ELSE (IF rows[i].DriverAhead = Null THEN <<i - 1>> ELSE <<>>) \o nan_indices(rows, i + 1)

\* "Missing at index {idx} | context {start}-{end - 1}" and df.iloc[start:end]
context_around(f, idx) ==
  [file |-> f, idx |-> idx,
   start |-> max(0, idx - 5), end |-> min(Len(files[f].rows), idx + 6)]

\* the contexts inspect_csv writes for file f: none for a file that failed to
\* parse, is empty or has no car-ahead column (found by find_col in VER, by
\* its exact name in HAM and GLOBAL)
context_of(sc, f) ==
  IF ~files[f].ok \/ Len(files[f].rows) = 0 THEN <<>>
  ELSE IF (sc = "VER" /\ find_col(header, "DriverAhead") # Null)
          \/ (sc \in {"HAM", "GLOBAL"} /\ "DriverAhead" \in header)
       THEN LET nan == nan_indices(files[f].rows, 1)
            IN [k \in 1..Len(nan) |-> context_around(f, nan[k])]
  ELSE <<>>

RECURSIVE contexts(_, _)
contexts(sc, fs) ==
  IF fs = <<>> THEN <<>> ELSE context_of(sc, Head(fs)) \o contexts(sc, Tail(fs))

\* total_missing of the summary section
RECURSIVE total_missing(_)
total_missing(summary) ==
  IF summary = <<>> THEN 0
  ELSE (IF Head(summary).miss = Null THEN 0 ELSE Head(summary).miss[1])
       + total_missing(Tail(summary))

\* the report of a run over an existing directory, with its summary section
FullReport(sc, fs) ==
  LET summary == driverahead_summary(sc, fs)
  IN [exists |-> TRUE, absence |-> FALSE, failed |-> FailedToRead(fs),
      context |-> contexts(sc, fs),
      summary |-> summary, total |-> Some(total_missing(summary))]

\* Ver_analysis.py, PART 1
VerReport ==
  /\ script = "VER" /\ pc = "start"
  /\ IF ~dirExists
     THEN /\ report' = [NoReport EXCEPT !.exists = TRUE, !.absence = TRUE]
          /\ UNCHANGED csv_files
     ELSE \E l \in Listings(DOMAIN files) :
            /\ csv_files' = sorted(OnlyCsv(l))
            /\ report' = FullReport("VER", csv_files')
  /\ pc' = "reported"
  /\ UNCHANGED dashVars
  /\ UNCHANGED loopVars
  /\ files' = write_file(files, report_file)
  /\ UNCHANGED <<script, dirExists, header, artifact, wrote, rerun, before>>

\* Ham_analysis.py, report part
HamReport ==
  /\ script = "HAM" /\ pc = "start"
  /\ IF ~dirExists
     THEN /\ report' = [NoReport EXCEPT !.exists = TRUE, !.absence = TRUE]
          /\ UNCHANGED csv_files
     ELSE \E l \in Listings(DOMAIN files) :
            /\ csv_files' = OnlyCsv(sorted(l))
            /\ report' = FullReport("HAM", csv_files')
  /\ pc' = "reported"
  /\ UNCHANGED dashVars
  /\ UNCHANGED loopVars
  /\ files' = write_file(files, report_file)
  /\ UNCHANGED <<script, dirExists, header, artifact, wrote, rerun, before>>

\* lec_analyse.py, Part 1: the report holds one section per file and neither
\* an absence line nor the contexts of missing values nor a summary
LecReport ==
  /\ script = "LEC" /\ pc = "start"
  /\ IF ~dirExists
     THEN /\ report' = [NoReport EXCEPT !.exists = TRUE]
          /\ UNCHANGED csv_files
     ELSE \E l \in Listings(DOMAIN files) :
            /\ csv_files' = sorted(OnlyCsv(l))
            /\ report' = [NoReport EXCEPT !.exists = TRUE,
                                          !.failed = FailedToRead(csv_files')]
  /\ pc' = "reported"
  /\ UNCHANGED dashVars
  /\ UNCHANGED loopVars
  /\ files' = write_file(files, report_file)
  /\ UNCHANGED <<script, dirExists, header, artifact, wrote, rerun, before>>

\* the summary list is left as the last driver directory filled it
stale_summary == summary_list

\* driverahead_summary = [] at the top of an iteration of the main loop
fresh_summary == <<>>

\* combined = pd.DataFrame() at the top of an iteration of the main loop
fresh_frame == <<>>

\* global_player_csv_clean.py, main loop, step 1 for one driver directory: the
\* two loop variables are set anew, inspect_csv appends to the summary list and
\* the summary section is written from that list
GlobalReport ==
  /\ script = "GLOBAL" /\ pc = "start"
  /\ dirExists
  /\ combined_df' = fresh_frame
  /\ \E l \in Listings(DOMAIN files) :
       /\ csv_files' = sorted(OnlyCsv(l))
       /\ summary_list' = fresh_summary \o driverahead_summary("GLOBAL", csv_files')
       /\ report' = [FullReport("GLOBAL", csv_files')
                       EXCEPT !.summary = summary_list',
                              !.total = Some(total_missing(summary_list'))]
  /\ pc' = "reported"
  /\ UNCHANGED <<driver_path, entries, written>>
  /\ UNCHANGED dashVars
  /\ files' = write_file(files, report_file)
  /\ UNCHANGED <<script, dirExists, header, artifact, wrote, rerun, before>>

\* global_player_csv_clean.py: an entry that is not a directory is skipped
GlobalSkip ==
  /\ script = "GLOBAL" /\ pc = "start"
  /\ ~dirExists
  /\ pc' = "done"
  /\ UNCHANGED dashVars
  /\ UNCHANGED loopVars
  /\ UNCHANGED <<script, dirExists, header, files, artifact, report, csv_files,
                 wrote, rerun, before>>

----------------------------------------------------------------------------
(* PART 2: merge, clean, sort, write *)

\* the columns of the merged table: those of the lap files plus the two tags
MergedCols == header \cup {"Driver", "LapNumber"}

\* combined.to_csv(sorted_cleaned_csv, index=False)
to_csv(cols, rows) ==
  /\ artifact' = [exists |-> TRUE, cols |-> cols, rows |-> rows]
  /\ wrote' = TRUE

\* an exception that ends the script once the artifact is open for writing
Raise_after_open ==
  /\ pc' = "raised"
  /\ artifact' = [exists |-> TRUE, cols |-> {}, rows |-> <<>>]
  /\ UNCHANGED wrote

\* an exception ends the script; nothing more is written
Raise ==
  /\ pc' = "raised"
  /\ UNCHANGED <<artifact, wrote>>

\* Ver_analysis.py lines 164-187, the clean-up of a non-empty merged table
VerClean(rows) ==
  LET da_col == find_col(MergedCols, "DriverAhead")
      dist_col == find_col(MergedCols, "DistanceToDriverAhead")
      time_col == find_col(MergedCols, "SessionTime")
      filled == IF da_col # Null THEN fillna(rows) ELSE rows
      cleared == IF da_col # Null /\ dist_col # Null THEN clear_gap(filled) ELSE filled
      timed == IF time_col # Null THEN to_seconds(cleared) ELSE cleared
  IN sort_values(timed, time_col # Null)

\* Ver_analysis.py, PART 2
VerMerge ==
  /\ script = "VER" /\ pc = "reported"
  /\ IF ~dirExists
     THEN Raise /\ UNCHANGED csv_files
     ELSE \E l \in Listings(DOMAIN files) :
            /\ csv_files' = sorted(OnlyCsv(l))
            /\ LET m == MergeLoop("VER", csv_files', <<>>) IN
               IF m.raised THEN Raise
               ELSE IF m.rows # <<>>
                    THEN to_csv(MergedCols, VerClean(m.rows)) /\ pc' = "done"
                    ELSE pc' = "done" /\ UNCHANGED <<artifact, wrote>>
  /\ UNCHANGED dashVars
  /\ UNCHANGED loopVars
  /\ files' = IF wrote' THEN write_file(files, sorted_cleaned_csv) ELSE files
  /\ UNCHANGED <<script, dirExists, header, report, rerun, before>>

\* Ham_analysis.py lines 145-158 and global_player_csv_clean.py lines 136-146:
\* the clean-up looks the columns up by their exact names; a KeyError is raised
\* when DistanceToDriverAhead is there without DriverAhead and when a sort key
\* is not a column
HamKeyError(cols) ==
  \/ "DistanceToDriverAhead" \in cols /\ "DriverAhead" \notin cols
  \/ "LapNumber" \notin cols
  \/ "SessionTime" \notin cols

HamClean(cols, rows) ==
  LET filled == IF "DriverAhead" \in cols THEN fillna(rows) ELSE rows
      cleared == IF "DistanceToDriverAhead" \in cols THEN clear_gap(filled) ELSE filled
      timed == IF "SessionTime" \in cols THEN to_seconds(cleared) ELSE cleared
  IN sort_values(timed, TRUE)

\* Ham_analysis.py, merge part: with no lap file the merged table has no
\* column at all
HamMerge ==
  /\ script = "HAM" /\ pc = "reported"
  /\ IF ~dirExists
     THEN Raise /\ UNCHANGED csv_files
     ELSE \E l \in Listings(DOMAIN files) :
            /\ csv_files' = OnlyCsv(sorted(l))
            /\ LET m == MergeLoop("HAM", csv_files', <<>>)
                   cols == IF csv_files' = <<>> THEN {} ELSE MergedCols
               IN IF m.raised \/ HamKeyError(cols) THEN Raise
                  ELSE to_csv(cols, HamClean(cols, m.rows)) /\ pc' = "done"
  /\ UNCHANGED dashVars
  /\ UNCHANGED loopVars
  /\ files' = IF wrote' THEN write_file(files, sorted_cleaned_csv) ELSE files
  /\ UNCHANGED <<script, dirExists, header, report, rerun, before>>

\* lec_analyse.py lines 87-102
LecClean(rows) ==
  LET da_col == find_col(MergedCols, "DriverAhead")
      st_col == find_col(MergedCols, "SessionTime")
      filled == IF da_col # Null THEN fillna(rows) ELSE rows
  IN IF st_col # Null THEN sort_values(to_seconds(filled), TRUE) ELSE filled

\* lec_analyse.py, Part 2
LecMerge ==
  /\ script = "LEC" /\ pc = "reported"
  /\ IF ~dirExists
     THEN pc' = "done" /\ UNCHANGED <<artifact, wrote, csv_files>>
     ELSE \E l \in Listings(DOMAIN files) :
            /\ csv_files' = OnlyCsv(sorted(l))
            /\ LET m == MergeLoop("LEC", csv_files', <<>>) IN
               IF m.raised THEN Raise
               ELSE IF csv_files' # <<>>
                    THEN to_csv(MergedCols, LecClean(m.rows)) /\ pc' = "done"
                    ELSE pc' = "done" /\ UNCHANGED <<artifact, wrote>>
  /\ UNCHANGED dashVars
  /\ UNCHANGED loopVars
  /\ files' = IF wrote' THEN write_file(files, sorted_cleaned_csv) ELSE files
  /\ UNCHANGED <<script, dirExists, header, report, rerun, before>>

\* global_player_csv_clean.py, main loop, step 2 (csv_files is the list of
\* step 1)
GlobalMerge ==
  /\ script = "GLOBAL" /\ pc = "reported"
  /\ LET m == MergeLoop("GLOBAL", csv_files, combined_df) IN
     IF m.raised THEN Raise /\ combined_df' = m.rows
     ELSE IF m.rows # <<>>
          THEN IF HamKeyError(MergedCols) THEN Raise /\ combined_df' = m.rows
               ELSE /\ combined_df' = HamClean(MergedCols, m.rows)
                    /\ to_csv(MergedCols, combined_df')
                    /\ pc' = "done"
          ELSE pc' = "done" /\ UNCHANGED <<artifact, wrote, combined_df>>
  /\ UNCHANGED <<driver_path, entries, written, summary_list>>
  /\ UNCHANGED dashVars
  /\ files' = IF wrote' THEN write_file(files, sorted_cleaned_csv) ELSE files
  /\ UNCHANGED <<script, dirExists, header, report, csv_files, rerun, before>>

\* the script is started again over the unchanged directory
Rerun ==
  /\ pc \in {"done", "raised"}
  /\ rerun' = TRUE
  /\ before' = artifact
  /\ wrote' = FALSE
  /\ csv_files' = <<>>
  /\ pc' = "start"
  /\ combined_df' = <<>> /\ summary_list' = <<>>
  /\ UNCHANGED <<driver_path, entries, written>>
  /\ UNCHANGED dashVars
  /\ UNCHANGED <<script, dirExists, header, files, artifact, report>>

Next ==
  \/ VerReport \/ VerMerge
  \/ HamReport \/ HamMerge
  \/ LecReport \/ LecMerge
  \/ GlobalReport \/ GlobalSkip \/ GlobalMerge
  \/ Rerun

Spec == Init /\ [][Next]_vars

SpecCase == InitCase /\ [][Next]_vars

\* most records of the lap file whose report is looked at
MaxRows == 13

\* the state before a script is started over a directory with one lap file of
\* up to MaxRows records, each with or without a car ahead
InitContext ==
  /\ DashboardClosed
  /\ OneDirectory
  /\ script \in Scripts
  /\ dirExists = TRUE
  /\ header = {"DriverAhead"}
  /\ \E n \in 0..MaxRows :
       \E rows \in [1..n -> RawRows(header)] :
         files = [f \in {"lap_2.csv"} |-> [ok |-> TRUE, rows |-> rows]]
  /\ artifact = NoFile
  /\ report = NoReport
  /\ csv_files = <<>>
  /\ pc = "start"
  /\ wrote = FALSE
  /\ rerun = FALSE
  /\ before = NoFile

\* the report part of the four scripts
ContextNext == VerReport \/ HamReport \/ LecReport \/ GlobalReport

SpecContext == InitContext /\ [][ContextNext]_vars

----------------------------------------------------------------------------
(* The main loop of the all-drivers script over the base directory *)

\* most entries of the base directory F1_Data/Australia2025
MaxEntries == 2

\* sorted(os.listdir(base_data_path)): the names of the entries, in order
EntryNames == <<"HAM", "NOR", "VER", "ZHO">>

\* the records of the lap files of the base directory: with or without a car
\* ahead
LoopRows ==
  {r \in RawRows(OptCols) : r.DistanceToDriverAhead = Null /\ r.SessionTime = Some(<<0, 59>>)}

\* a lap file of the base directory: not parsable, empty, or with one record
LoopFiles ==
  {Unparsable} \cup {[ok |-> TRUE, rows |-> rows] : rows \in {<<>>} \cup {<<r>> : r \in LoopRows}}

\* what an entry of the base directory can be: a file, or a driver directory
\* with up to two lap files
Entries ==
  {[isdir |-> FALSE, files |-> <<>>]}
    \cup {[isdir |-> TRUE, files |-> fs] :
             fs \in UNION {[S -> LoopFiles] : S \in SUBSET {"lap_2.csv", "lap_10.csv"}}}

\* the all-drivers script is started over a base directory of up to MaxEntries
\* entries and is at the first of them
InitAll ==
  /\ DashboardClosed
  /\ script = "GLOBAL"
  /\ header = OptCols
  /\ \E n \in 1..min(MaxEntries, Len(EntryNames)) :
       \E es \in [1..n -> Entries] :
         /\ driver_path = EntryNames[1]
         /\ dirExists = es[1].isdir
         /\ files = es[1].files
         /\ entries = [i \in 1..n - 1 |->
                         [name |-> EntryNames[i + 1], isdir |-> es[i + 1].isdir,
                          files |-> es[i + 1].files]]
  /\ written = <<>>
  /\ combined_df = <<>> /\ summary_list = <<>>
  /\ artifact = NoFile
  /\ report = NoReport
  /\ csv_files = <<>>
  /\ pc = "start"
  /\ wrote = FALSE
  /\ rerun = FALSE
  /\ before = NoFile

\* for driver_code in sorted(os.listdir(base_data_path)): the iteration over
\* one entry is over and the loop goes to the next entry, whose report and
\* artifact have paths of their own; combined and driverahead_summary keep
\* their values
NextDriver ==
  /\ script = "GLOBAL" /\ pc = "done"
  /\ entries # <<>>
  /\ written' = Append(written, [name |-> driver_path, isdir |-> dirExists, files |-> files,
                                 artifact |-> artifact, report |-> report])
  /\ driver_path' = Head(entries).name
  /\ dirExists' = Head(entries).isdir
  /\ files' = Head(entries).files
  /\ entries' = Tail(entries)
  /\ artifact' = NoFile
  /\ report' = NoReport
  /\ csv_files' = <<>>
  /\ pc' = "start"
  /\ wrote' = FALSE
  /\ UNCHANGED <<combined_df, summary_list>>
  /\ UNCHANGED <<script, header, rerun, before>>
  /\ UNCHANGED dashVars

AllNext == GlobalReport \/ GlobalSkip \/ GlobalMerge \/ NextDriver

SpecAll == InitAll /\ [][AllNext]_vars

----------------------------------------------------------------------------
(* Lap Delta Engine *)

\* number of points of the common distance grid
GridPoints == 2000

\* a distance on the grid is a whole number of 1/GridUnit metre: the points
\* of np.linspace(0, max_dist, GridPoints) are exact in this unit
GridUnit == GridPoints - 1

\* a float quotient 1/x is kept to the nearest 1/PaceScale second per metre
PaceScale == 1000

\* most records of one lap of a canonical artifact
MaxSamples == 2

\* the values of the Distance (m) and Speed (km/h) columns: a standing car,
\* and a speed above the ceiling of the clamp
Distances == {0, 5, 10}
Speeds == {0, 720}

\* the records of one lap, df[df["LapNumber"] == lap], in the order of the
\* artifact (by session time, along which the distance grows)
LapSlices ==
  {l \in UNION {[1..n -> [Distance : Distances, Speed : Speeds]] : n \in 1..MaxSamples} :
     \A i \in 1..Len(l) - 1 : l[i].Distance < l[i + 1].Distance}

Dashboards == {"compare_player", "analyse_player"}

\* the Normalizer is not running
NormalizerIdle ==
  /\ script = "VER" /\ dirExists = FALSE /\ header = {} /\ files = <<>>
  /\ artifact = NoFile /\ report = NoReport /\ csv_files = <<>>
  /\ pc = "start" /\ wrote = FALSE /\ rerun = FALSE /\ before = NoFile
  /\ OneDirectory

\* a dashboard is open with two laps selected and nothing plotted yet
DeltaInit ==
  /\ NormalizerIdle
  /\ dashboard \in Dashboards
  /\ d1 \in LapSlices /\ d2 \in LapSlices
  /\ dist_common = <<>> /\ delta_time = <<>> /\ earlier = <<>>
  /\ view = "select"
  /\ NothingLoaded

\* .sort_values("Distance")
RECURSIVE InsertSample(_, _)
InsertSample(srt, r) ==
  IF srt = <<>> THEN <<r>>
  ELSE IF r.Distance < Head(srt).Distance THEN <<r>> \o srt
  ELSE <<Head(srt)>> \o InsertSample(Tail(srt), r)

RECURSIVE sort_by_distance(_, _)
sort_by_distance(rows, n) ==
  IF n = 0 THEN <<>> ELSE InsertSample(sort_by_distance(rows, n - 1), rows[n])

\* df["Distance"].max()
RECURSIVE col_max(_)
col_max(rows) ==
  IF Len(rows) = 1 THEN rows[1].Distance
  ELSE LET m == col_max(Tail(rows))
       IN IF rows[1].Distance > m THEN rows[1].Distance ELSE m

\* df["Distance"].min()
RECURSIVE col_min(_)
col_min(rows) ==
  IF Len(rows) = 1 THEN rows[1].Distance
  ELSE LET m == col_min(Tail(rows))
       IN IF rows[1].Distance < m THEN rows[1].Distance ELSE m

\* the grid ends at the last distance of the first lap
max_dist_of_first(a, b) == col_max(a)

\* max_dist = min(d1['Distance'].max(), d2['Distance'].max())
max_dist(a, b) == min(col_max(a), col_max(b))

\* the grid without its end point, as np.linspace(..., endpoint=False) gives it
linspace_no_endpoint(start, stop, num) ==
  [k \in 1..num |-> start * (num - 1) + ((k - 1) * (stop - start) * (num - 1)) \div num]

\* np.linspace(start, stop, num), start and stop in metres, the points in
\* 1/(num - 1) metre
linspace(start, stop, num) ==
  [k \in 1..num |-> start * (num - 1) + (k - 1) * (stop - start)]

\* np.interp(x, xp, fp) at one point x (in 1/GridUnit metre) over the samples
\* of a lap from the j-th on: the first or last speed outside the samples,
\* the straight line between the two neighbouring samples inside; the result
\* is the fraction <<numerator, denominator>> km/h
RECURSIVE interp_at(_, _, _)
interp_at(x, rows, j) ==
  IF x <= rows[1].Distance * GridUnit THEN <<rows[1].Speed, 1>>
  ELSE IF x >= rows[Len(rows)].Distance * GridUnit THEN <<rows[Len(rows)].Speed, 1>>
  ELSE IF x < rows[j + 1].Distance * GridUnit
       THEN LET w == (rows[j + 1].Distance - rows[j].Distance) * GridUnit
            IN <<rows[j].Speed * w
                   + (x - rows[j].Distance * GridUnit) * (rows[j + 1].Speed - rows[j].Speed),
                 w>>
  ELSE interp_at(x, rows, j + 1)

\* np.interp(dist_common, d['Distance'], d['Speed'])
interp(xs, rows) == [k \in 1..Len(xs) |-> interp_at(xs[k], rows, 1)]

\* p < q for fractions with positive denominators
FracLess(p, q) == p[1] * q[2] < q[1] * p[2]

\* v / 3.6
per_3_6(v) == <<5 * v[1], 18 * v[2]>>

\* np.clip(v, a_min, a_max)
clip(v, a_min, a_max) ==
  IF FracLess(v, a_min) THEN a_min
  ELSE IF FracLess(a_max, v) THEN a_max
  ELSE v

\* 1 / q for a positive fraction q, in 1/PaceScale s/m, rounded to nearest
reciprocal(q) == (2 * PaceScale * q[2] + q[1]) \div (2 * q[1])

\* 1/(np.clip(v_interp/3.6, a_min, 100)) at every grid point
pace(v_interp, a_min) ==
  [k \in 1..Len(v_interp) |-> reciprocal(clip(per_3_6(v_interp[k]), a_min, <<100, 1>>))]

\* the steps of the grid with the first step as long as the others
diff_first_step(xs) == [k \in 1..Len(xs) |-> IF k = 1 THEN xs[2] - xs[1] ELSE xs[k] - xs[k - 1]]

\* np.diff(xs, prepend=0)
diff(xs) == [k \in 1..Len(xs) |-> IF k = 1 THEN xs[1] - 0 ELSE xs[k] - xs[k - 1]]

\* np.cumsum(a) over a[lo..hi] on top of base: the running sums, computed
\* half by half
RECURSIVE cumsum_from(_, _, _, _)
cumsum_from(a, lo, hi, base) ==
  IF lo = hi THEN <<base + a[lo]>>
  ELSE LET mid == (lo + hi) \div 2
           left == cumsum_from(a, lo, mid, base)
       IN left \o cumsum_from(a, mid + 1, hi, left[Len(left)])

cumsum(a) == cumsum_from(a, 1, Len(a), 0)

\* the pace of the second lap minus that of the first
delta_reversed(grid, v_a, v_b, a_min) ==
  LET p_a == pace(v_a, a_min)
      p_b == pace(v_b, a_min)
      dx == diff(grid)
  IN cumsum([k \in 1..Len(grid) |-> (p_b[k] - p_a[k]) * dx[k]])

\* np.cumsum((1/np.clip(v_a/3.6, a_min, 100) - 1/np.clip(v_b/3.6, a_min, 100))
\*           * np.diff(grid, prepend=0)), in 1/(PaceScale * GridUnit) second
delta(grid, v_a, v_b, a_min) ==
  LET p_a == pace(v_a, a_min)
      p_b == pace(v_b, a_min)
      dx == diff(grid)
  IN cumsum([k \in 1..Len(grid) |-> (p_a[k] - p_b[k]) * dx[k]])

\* compare_player.py, show_comparison_analysis, sections 3 to 5: driver 1's
\* lap against driver 2's, velocity floor 1 m/s
show_comparison_analysis ==
  /\ dashboard = "compare_player" /\ view = "select"
  /\ LET s1 == sort_by_distance(d1, Len(d1))
         s2 == sort_by_distance(d2, Len(d2))
         grid == linspace(0, max_dist(s1, s2), GridPoints)
         v1_interp == interp(grid, s1)
         v2_interp == interp(grid, s2)
     IN /\ dist_common' = grid
        /\ delta_time' = delta(grid, v1_interp, v2_interp, <<1, 1>>)
  /\ view' = "plotted"
  /\ UNCHANGED <<dashboard, d1, d2, earlier>>
  /\ UNCHANGED loadVars
  /\ UNCHANGED normVars

\* analyse_player/analyse_lec.py and str_analysis.py, main, SECTION 3: the
\* selected lap (d1) against the reference lap (d2), velocity floor 0.1 m/s
comparison_analysis ==
  /\ dashboard = "analyse_player" /\ view = "select"
  /\ LET ref_df == sort_by_distance(d2, Len(d2))
         cur_df == sort_by_distance(d1, Len(d1))
         ref_distance == linspace(0, max_dist(ref_df, cur_df), GridPoints)
         v_ref_interp == interp(ref_distance, ref_df)
         v_cur_interp == interp(ref_distance, cur_df)
     IN /\ dist_common' = ref_distance
        /\ delta_time' = delta(ref_distance, v_cur_interp, v_ref_interp, <<1, 10>>)
  /\ view' = "plotted"
  /\ UNCHANGED <<dashboard, d1, d2, earlier>>
  /\ UNCHANGED loadVars
  /\ UNCHANGED normVars

\* the user exchanges the two selections; the dashboard script is run again
\* (earlier keeps the curve that was on the screen)
select_exchanged ==
  /\ view = "plotted"
  /\ d1' = d2 /\ d2' = d1
  /\ earlier' = delta_time
  /\ view' = "select"
  /\ UNCHANGED <<dashboard, dist_common, delta_time>>
  /\ UNCHANGED loadVars
  /\ UNCHANGED normVars

DeltaNext == show_comparison_analysis \/ comparison_analysis \/ select_exchanged

SpecDelta == DeltaInit /\ [][DeltaNext]_vars

----------------------------------------------------------------------------
(* Lap ranking of the per-driver dashboards *)

\* most laps of the canonical artifact a per-driver dashboard loads
MaxLaps == 3

\* the laps of an artifact: recorded from the start line on
RankedSlices == {l \in LapSlices : l[1].Distance = 0}

\* the canonical artifacts load_data can return: none (the file is missing),
\* or the laps 1..n, n = 0 for a file without records
Frames ==
  {NoFrame} \cup
  {[exists |-> TRUE, laps |-> l] : l \in UNION {[1..n -> RankedSlices] : n \in 0..MaxLaps}}

\* df.empty
empty(frame) == frame.laps = <<>>

RankDashboards == {"str_analysis", "analyse_lec"}

\* a per-driver dashboard is opened
RankInit ==
  /\ NormalizerIdle
  /\ dashboard \in RankDashboards
  /\ df_driver \in Frames
  /\ df1 = NoFrame /\ df2 = NoFrame
  /\ lap_times = <<>> /\ offered = <<>>
  /\ d1 = <<>> /\ d2 = <<>>
  /\ dist_common = <<>> /\ delta_time = <<>> /\ earlier = <<>>
  /\ view = "opened"

\* lap_df["Distance"].diff().fillna(0) at sample k
dx_at(lap_df, k) == IF k = 1 THEN 0 ELSE lap_df[k].Distance - lap_df[k - 1].Distance

\* np.clip(lap_df["Speed"].values / 3.6, 0.1, 100) at sample k, in m/s
v_mps_at(lap_df, k) == clip(per_3_6(<<lap_df[k].Speed, 1>>), <<1, 10>>, <<100, 1>>)

\* np.nansum of the first n terms of dx / v_mps, in 1/PaceScale second
RECURSIVE nansum(_, _)
nansum(lap_df, n) ==
  IF n = 0 THEN 0
  ELSE nansum(lap_df, n - 1) + dx_at(lap_df, n) * reciprocal(v_mps_at(lap_df, n))

\* single_lap_time(lap_df)
single_lap_time(lap_df) ==
  LET by_distance == sort_by_distance(lap_df, Len(lap_df))
  IN nansum(by_distance, Len(by_distance))

\* compute_lap_time_stats(df): df.groupby("LapNumber").apply(single_lap_time),
\* a series indexed by lap number in ascending order
compute_lap_time_stats(frame) ==
  [lap \in 1..Len(frame.laps) |-> single_lap_time(frame.laps[lap])]

\* the last label with the smallest value
idxmin_last(series) ==
  CHOOSE i \in DOMAIN series :
    /\ \A j \in DOMAIN series : series[i] <= series[j]
    /\ \A j \in DOMAIN series : series[j] = series[i] => i >= j

\* Series.idxmin(): the first label with the smallest value
idxmin(series) ==
  CHOOSE i \in DOMAIN series :
    /\ \A j \in DOMAIN series : series[i] <= series[j]
    /\ \A j \in DOMAIN series : series[j] = series[i] => i <= j

\* Series.idxmax(): the first label with the largest value
idxmax(series) ==
  CHOOSE i \in DOMAIN series :
    /\ \A j \in DOMAIN series : series[i] >= series[j]
    /\ \A j \in DOMAIN series : series[j] = series[i] => i <= j

\* Series.sort_values(): the labels in ascending order of their values; the
\* sort is not stable, labels with equal values come in any order
sorted_index(series) ==
  {ix \in [DOMAIN series -> DOMAIN series] :
     /\ \A i, j \in DOMAIN series : ix[i] = ix[j] => i = j
     /\ \A i \in 1..Len(series) - 1 : series[ix[i]] <= series[ix[i + 1]]}

\* str_analysis.py, main, up to the comparison targets: Session Best, 2nd
\* Best, Session Worst and 2nd Worst
str_main ==
  /\ dashboard = "str_analysis" /\ view = "opened"
  /\ IF empty(df_driver)
     THEN view' = "error" /\ UNCHANGED <<lap_times, offered>>
     ELSE /\ lap_times' = compute_lap_time_stats(df_driver)
          /\ \E sorted_times \in sorted_index(lap_times') :
               LET best_lap_num == idxmin(lap_times')
                   worst_lap_num == idxmax(lap_times')
                   n == Len(sorted_times)
               IN offered' =
                    [best |-> best_lap_num,
                     second_best |-> IF n > 1 THEN sorted_times[2] ELSE best_lap_num,
                     worst |-> worst_lap_num,
                     second_worst |-> IF n > 1 THEN sorted_times[n - 1] ELSE worst_lap_num]
          /\ view' = "ranked"
  /\ UNCHANGED <<dashboard, d1, d2, dist_common, delta_time, earlier, df_driver, df1, df2>>
  /\ UNCHANGED normVars

\* analyse_lec.py, main, up to the comparison targets: Session Best and
\* Session Worst only; nothing is shown for an empty artifact
lec_main ==
  /\ dashboard = "analyse_lec" /\ view = "opened"
  /\ IF empty(df_driver)
     THEN view' = "blank" /\ UNCHANGED <<lap_times, offered>>
     ELSE /\ lap_times' = compute_lap_time_stats(df_driver)
          /\ offered' = [best |-> idxmin(lap_times'), worst |-> idxmax(lap_times')]
          /\ view' = "ranked"
  /\ UNCHANGED <<dashboard, d1, d2, dist_common, delta_time, earlier, df_driver, df1, df2>>
  /\ UNCHANGED normVars

RankNext == str_main \/ lec_main

SpecRank == RankInit /\ [][RankNext]_vars

----------------------------------------------------------------------------
(* Loading the two artifacts of the head-to-head comparison *)

\* the laps of the artifacts compared: two samples, at the start line and at
\* 10 m, the first at full speed
GuardSlices ==
  {l \in LapSlices : Len(l) = 2 /\ l[1].Distance = 0 /\ l[2].Distance = 10 /\ l[1].Speed = 720}

\* what load_driver_data can return: pd.DataFrame() when the file is missing,
\* else the artifact, without records or with one or two laps
GuardFrames ==
  {NoFrame} \cup
  {[exists |-> TRUE, laps |-> l] : l \in UNION {[1..n -> GuardSlices] : n \in 0..2}}

\* the comparison page is opened for two drivers
GuardInit ==
  /\ NormalizerIdle
  /\ dashboard = "compare_player"
  /\ df1 \in GuardFrames /\ df2 \in GuardFrames
  /\ df_driver = NoFrame /\ lap_times = <<>> /\ offered = <<>>
  /\ d1 = <<>> /\ d2 = <<>>
  /\ dist_common = <<>> /\ delta_time = <<>> /\ earlier = <<>>
  /\ view = "opened"

\* the error is reported only when both artifacts are empty
both_empty(a, b) == empty(a) /\ empty(b)

\* df1.empty or df2.empty
either_empty(a, b) == empty(a) \/ empty(b)

\* the choices of st.selectbox(..., sorted(df['LapNumber'].unique())): a lap
\* number of the artifact, None (0) when there is none
selectbox(frame) == IF frame.laps = <<>> THEN {0} ELSE DOMAIN frame.laps

\* df[df['LapNumber'] == lap]
lap_slice(frame, lap) == IF lap \in DOMAIN frame.laps THEN frame.laps[lap] ELSE <<>>

\* compare_player.py, show_comparison_analysis, sections 2 and 3: both
\* artifacts are loaded; an error is shown and the function returns when one
\* is empty, else a lap of each driver is selected
load_driver_data ==
  /\ dashboard = "compare_player" /\ view = "opened"
  /\ IF either_empty(df1, df2)
     THEN view' = "error" /\ UNCHANGED <<d1, d2>>
     ELSE \E lap1 \in selectbox(df1), lap2 \in selectbox(df2) :
            /\ d1' = lap_slice(df1, lap1)
            /\ d2' = lap_slice(df2, lap2)
            /\ view' = "select"
  /\ UNCHANGED <<dashboard, dist_common, delta_time, earlier>>
  /\ UNCHANGED loadVars
  /\ UNCHANGED normVars

GuardNext == load_driver_data \/ show_comparison_analysis

SpecGuard == GuardInit /\ [][GuardNext]_vars

----------------------------------------------------------------------------
(* Properties of the Normalizer *)

\* the run has ended, normally or by an exception
Finished == pc \in {"done", "raised"}

\* the lap files of the directory: the entries whose name ends in ".csv"
LapFiles == {f \in DOMAIN files : IsCsv[f]}

\* the raw records of the lap files, by provenance
RawRecords ==
  UNION {{[file |-> f, idx |-> i] : i \in 1..Len(files[f].rows)} : f \in LapFiles}

\* the raw record an artifact record came from
RawOf(r) == files[r.src.file].rows[r.src.idx]

\* the file names without any digit
NoDigitNames == {f \in NamePool : \A i \in 1..Len(Chars(f)) : Chars(f)[i] \notin Digits}

\* C1: in every canonical artifact each adjacent pair of records is ordered by
\* lap number and, within a lap, by session time in seconds
C1_OrderingInvariant ==
  artifact.exists =>
    \A i \in 1..Len(artifact.rows) - 1 :
      LET a == artifact.rows[i]
          b == artifact.rows[i + 1]
      IN /\ a.LapNumber <= b.LapNumber
         /\ (a.LapNumber = b.LapNumber /\ "SessionTime" \in artifact.cols)
              => a.SessionTime[1] <= b.SessionTime[1]

\* C2: in every record of a canonical artifact that has both columns, car-ahead
\* is the "None" sentinel exactly when gap-distance is null
C2_JointNullity ==
  (artifact.exists /\ {"DriverAhead", "DistanceToDriverAhead"} \subseteq artifact.cols) =>
    \A i \in 1..Len(artifact.rows) :
      (artifact.rows[i].DriverAhead = Some("None"))
        <=> (artifact.rows[i].DistanceToDriverAhead = Null)

\* C3: in a canonical artifact with a car-ahead column no record has a null
\* car-ahead; a record whose raw car-ahead was null carries "None", any other
\* record keeps its raw car-ahead
C3_SentinelPromotion ==
  (artifact.exists /\ "DriverAhead" \in artifact.cols) =>
    \A i \in 1..Len(artifact.rows) :
      LET r == artifact.rows[i] IN
      /\ r.DriverAhead # Null
      /\ RawOf(r).DriverAhead = Null => r.DriverAhead = Some("None")
      /\ RawOf(r).DriverAhead # Null => r.DriverAhead = RawOf(r).DriverAhead

\* a run wrote an artifact in which a raw null car-ahead became "None" and a
\* raw car-ahead value was kept
C3_Witness ==
  /\ wrote /\ pc = "done"
  /\ \E i, j \in 1..Len(artifact.rows) :
       /\ RawOf(artifact.rows[i]).DriverAhead = Null
       /\ artifact.rows[i].DriverAhead = Some("None")
       /\ RawOf(artifact.rows[j]).DriverAhead = Some("HAM")
       /\ artifact.rows[j].DriverAhead = Some("HAM")

\* C4: every record of a canonical artifact whose car-ahead is the "None"
\* sentinel has a null gap-distance, whatever gap the raw file carried
C4_StrayGapClearing ==
  (artifact.exists /\ {"DriverAhead", "DistanceToDriverAhead"} \subseteq artifact.cols) =>
    \A i \in 1..Len(artifact.rows) :
      artifact.rows[i].DriverAhead = Some("None")
        => artifact.rows[i].DistanceToDriverAhead = Null

\* C5: when a lap file cannot be parsed and every other condition is regular
\* (all columns present, names of the form lap_<digits>.csv), the run ends
\* without raising, the report names exactly the unparsable files, and every
\* record of the parsable files is in the artifact this run wrote
C5_PerFileIsolation ==
  (/\ Finished /\ dirExists /\ header = OptCols
   /\ LapFiles \subseteq {"lap_2.csv", "lap_10.csv"}
   /\ \E f \in LapFiles : ~files[f].ok) =>
    /\ pc = "done"
    /\ {report.failed[i] : i \in 1..Len(report.failed)} = {f \in LapFiles : ~files[f].ok}
    /\ RawRecords # {} =>
         /\ wrote
         /\ {artifact.rows[i].src : i \in 1..Len(artifact.rows)} = RawRecords

\* C6: when the driver directory of a per-driver script does not exist, the
\* run ends without raising, the report states the absence and no artifact is
\* written
C6_MissingDirectory ==
  (Finished /\ ~dirExists /\ script # "GLOBAL") =>
    /\ pc = "done"
    /\ report.exists /\ report.absence
    /\ ~wrote /\ artifact = before

\* C7: when the directory holds no lap file or no lap file yields a record,
\* the run writes no artifact and the artifact of an earlier run is unchanged
C7_NoValidFiles ==
  (Finished /\ dirExists /\ RawRecords = {}) =>
    ~wrote /\ artifact = before

\* C8: a parsable lap file whose name has no digit is merged with LapNumber 0:
\* with all columns present and every lap file parsable the run ends without
\* raising and the artifact holds each record of that file with LapNumber 0
C8_LapNumberSentinel ==
  (/\ Finished /\ dirExists /\ header = OptCols
   /\ \A f \in LapFiles : files[f].ok) =>
    \A f \in LapFiles :
      f \in NoDigitNames =>
        /\ pc = "done"
        /\ \A k \in 1..Len(files[f].rows) :
             /\ wrote
             /\ \E i \in 1..Len(artifact.rows) :
                  /\ artifact.rows[i].src = [file |-> f, idx |-> k]
                  /\ artifact.rows[i].LapNumber = 0

\* C9: a second (and any later) run over the unchanged directory writes an
\* artifact exactly when the run before it did, and the same one, record for
\* record and in the same order
C9_Idempotence ==
  (Finished /\ rerun) =>
    /\ wrote <=> before.exists
    /\ Bytes(artifact) = Bytes(before)

\* a second run rewrote an artifact with two records from different files
\* that tie on lap number and session time and differ otherwise
C9_Witness ==
  /\ pc = "done" /\ rerun /\ wrote
  /\ \E i, j \in 1..Len(artifact.rows) :
       /\ artifact.rows[i].src.file # artifact.rows[j].src.file
       /\ artifact.rows[i].LapNumber = artifact.rows[j].LapNumber
       /\ artifact.rows[i].SessionTime = artifact.rows[j].SessionTime
       /\ artifact.rows[i].DriverAhead # artifact.rows[j].DriverAhead

\* C10: a canonical artifact holds exactly one record per raw record of every
\* lap file, each tagged with the driver code of the run and the lap number
\* derived from the name of its file
C10_TaggingConservation ==
  artifact.exists =>
    /\ \A s \in RawRecords :
         Cardinality({i \in 1..Len(artifact.rows) : artifact.rows[i].src = s}) = 1
    /\ Len(artifact.rows) = Cardinality(RawRecords)
    /\ \A i \in 1..Len(artifact.rows) :
         LET r == artifact.rows[i] IN
         /\ r.Driver = driver_code(script)
         /\ r.LapNumber = lap_number(script, r.src.file)
         /\ r.src.file = "lap_2.csv" => r.LapNumber = 2
         /\ r.src.file = "lap_10.csv" => r.LapNumber = 10

\* a run wrote an artifact with the records of two lap files
C10_Witness ==
  /\ wrote /\ pc = "done"
  /\ \E i, j \in 1..Len(artifact.rows) :
       artifact.rows[i].src.file # artifact.rows[j].src.file

\* every lap file is parsable and named lap_<n>.csv, and there is a record
RegularLapFiles ==
  /\ dirExists
  /\ LapFiles \subseteq {"lap_2.csv", "lap_10.csv"}
  /\ \A f \in LapFiles : files[f].ok
  /\ RawRecords # {}

\* C11: whatever subset of the car-ahead, gap-distance and session-time
\* columns the lap files lack, a run over regular lap files ends without
\* raising and has written the artifact
C11_MissingOptionalColumns ==
  (Finished /\ RegularLapFiles) => (pc = "done" /\ wrote)

\* C12: when the three columns are spelled in another letter case, a run over
\* regular lap files ends without raising and its artifact is normalized as
\* with the canonical names: no null car-ahead (the sentinel instead), no gap
\* next to the sentinel (in the scripts that clear gaps), session time in
\* seconds, records ordered by lap number and session time
C12_CaseInsensitiveColumns ==
  (Finished /\ RegularLapFiles /\ header \in CasedHeaders) =>
    /\ pc = "done" /\ wrote
    /\ \A i \in 1..Len(artifact.rows) :
         LET r == artifact.rows[i] IN
         /\ r.DriverAhead # Null
         /\ RawOf(r).DriverAhead = Null => r.DriverAhead = Some("None")
         /\ (script # "LEC" /\ r.DriverAhead = Some("None"))
              => r.DistanceToDriverAhead = Null
         /\ r.SessionTime = Some(total_seconds(RawOf(r).SessionTime[1]))
    /\ \A i \in 1..Len(artifact.rows) - 1 :
         LET a == artifact.rows[i]
             b == artifact.rows[i + 1]
         IN \/ a.LapNumber < b.LapNumber
            \/ a.LapNumber = b.LapNumber /\ a.SessionTime[1] <= b.SessionTime[1]

----------------------------------------------------------------------------
(* Properties of the Lap Delta Engine *)

\* the comparison has been computed and drawn
Plotted == view = "plotted"

\* the velocity floor of the open dashboard, in m/s
VelocityFloor == IF dashboard = "compare_player" THEN <<1, 1>> ELSE <<1, 10>>

\* the velocity (m/s) of a lap at grid point k, clamped to [a_min, 100]
ClampedAt(rows, k, a_min) ==
  clip(per_3_6(interp_at(dist_common[k], sort_by_distance(rows, Len(rows)), 1)),
       a_min, <<100, 1>>)

\* a/b < c/d for non-negative fractions, by their continued fractions (no
\* product is formed)
RECURSIVE Below(_, _, _, _)
Below(a, b, c, d) ==
  IF a \div b # c \div d THEN a \div b < c \div d
  ELSE IF c % d = 0 THEN FALSE
  ELSE IF a % b = 0 THEN TRUE
  ELSE Below(d, c % d, b, a % b)

\* the first lap is slower than the second at grid point k, both velocities
\* clamped as the open dashboard clamps them
SlowerAt(a, b, k) ==
  LET p == ClampedAt(a, k, VelocityFloor)
      q == ClampedAt(b, k, VelocityFloor)
  IN Below(p[1], p[2], q[1], q[2])

\* the two laps cover no common distance
Disjoint(a, b) == col_max(a) < col_min(b) \/ col_max(b) < col_min(a)

\* C13: the grid of a plotted comparison has 2000 points, starts at 0, ends at
\* the smaller of the two laps' largest distances and is evenly spaced
C13_DeltaDomain ==
  Plotted =>
    /\ Len(dist_common) = 2000
    /\ dist_common[1] = 0
    /\ dist_common[2000] =
         (IF col_max(d1) <= col_max(d2) THEN col_max(d1) ELSE col_max(d2)) * GridUnit
    /\ \A k \in 1..1999 :
         dist_common[k + 1] - dist_common[k] = dist_common[2] - dist_common[1]

\* a comparison is plotted of two laps of two samples that end at different
\* distances
C13_Witness ==
  /\ Plotted
  /\ Len(d1) = 2 /\ Len(d2) = 2
  /\ col_max(d1) > col_max(d2)
  /\ dist_common[2000] = col_max(d2) * GridUnit

\* C14: once the two selections are exchanged, the curve is at every grid
\* point the negation of the curve plotted before
C14_DeltaSymmetry ==
  (Plotted /\ earlier # <<>>) =>
    /\ Len(delta_time) = Len(earlier)
    /\ \A k \in 1..Len(delta_time) : delta_time[k] = -earlier[k]

\* two laps of two samples that end at different distances, one of them
\* changing speed, were compared both ways and the curve is not flat
C14_Witness ==
  /\ Plotted /\ earlier # <<>>
  /\ Len(d1) = 2 /\ Len(d2) = 2
  /\ d1[1].Speed # d1[2].Speed
  /\ col_max(d1) # col_max(d2)
  /\ delta_time[GridPoints] # 0
  /\ \E k \in 2..GridPoints - 1 : delta_time[k] # delta_time[GridPoints]

\* C15: in both dashboards the curve accumulates the pace of the first lap
\* minus the pace of the second: where the first lap's clamped speed is lower
\* at every grid point the curve is nowhere negative and never falls, where it
\* is higher at every grid point the curve is nowhere positive and never rises
C15_SignConvention ==
  Plotted =>
    /\ (\A k \in 1..GridPoints : SlowerAt(d1, d2, k))
         => /\ \A k \in 1..GridPoints : delta_time[k] >= 0
            /\ \A k \in 1..GridPoints - 1 : delta_time[k] <= delta_time[k + 1]
    /\ (\A k \in 1..GridPoints : SlowerAt(d2, d1, k))
         => /\ \A k \in 1..GridPoints : delta_time[k] <= 0
            /\ \A k \in 1..GridPoints - 1 : delta_time[k] >= delta_time[k + 1]

\* the per-driver dashboard plotted a selected lap that is slower than the
\* reference lap at every grid point, and the curve ends above zero
C15_Witness ==
  /\ Plotted /\ dashboard = "analyse_player"
  /\ Len(d1) = 2 /\ Len(d2) = 2
  /\ col_max(d1) # col_max(d2)
  /\ \A k \in 1..GridPoints : SlowerAt(d1, d2, k)
  /\ delta_time[GridPoints] > 0

\* C16: no curve is plotted when a lap has fewer than 2 samples
C16_InsufficientSamples ==
  (Len(d1) < 2 \/ Len(d2) < 2) => ~Plotted

\* C17: no curve is plotted when the distance ranges of the two laps are
\* disjoint
C17_NoOverlap ==
  (dashboard \in Dashboards /\ Disjoint(d1, d2)) => ~Plotted

\* C18: every step of a plotted curve is the grid step times the difference
\* of the two paces, each the inverse of the velocity clamped to [0.1, 100] m/s
C18_VelocityClamp ==
  Plotted =>
    \A k \in 2..GridPoints :
      delta_time[k] - delta_time[k - 1] =
        (reciprocal(ClampedAt(d1, k, <<1, 10>>)) - reciprocal(ClampedAt(d2, k, <<1, 10>>)))
          * (dist_common[k] - dist_common[k - 1])

\* C19: every grid point of a plotted comparison of two laps of at least two
\* samples lies between the smallest and the largest recorded distance of
\* either lap
C19_GridInsideDomain ==
  (Plotted /\ Len(d1) >= 2 /\ Len(d2) >= 2) =>
    \A k \in 1..GridPoints :
      /\ col_min(d1) * GridUnit <= dist_common[k]
      /\ dist_common[k] <= col_max(d1) * GridUnit
      /\ col_min(d2) * GridUnit <= dist_common[k]
      /\ dist_common[k] <= col_max(d2) * GridUnit

----------------------------------------------------------------------------
(* Order of concatenation *)

\* the records script sc writes when it concatenates the lap files in the
\* order fs: its merge loop and its clean-up
Canonical(sc, fs) ==
  LET m == MergeLoop(sc, fs, <<>>)
  IN CASE sc = "VER" -> VerClean(m.rows)
       [] sc = "LEC" -> LecClean(m.rows)
       [] sc \in {"HAM", "GLOBAL"} -> HamClean(MergedCols, m.rows)

\* C20 as stated: the artifact a run wrote is the one the script writes for
\* every order of concatenation of the lap files
C20_MergeOrderIndependence ==
  (pc = "done" /\ wrote) =>
    \A fs \in Listings(LapFiles) :
      Bytes([exists |-> TRUE, cols |-> artifact.cols, rows |-> Canonical(script, fs)])
        = Bytes(artifact)

\* C20 amended: records of an artifact that tie on lap number and session time
\* stand in the order of their file names and, within a file, in file order
C20_TiesInFilenameOrder ==
  artifact.exists =>
    \A i, j \in 1..Len(artifact.rows) :
      LET a == artifact.rows[i]
          b == artifact.rows[j]
      IN (i < j /\ a.LapNumber = b.LapNumber /\ a.SessionTime = b.SessionTime)
           => \/ a.src.file = b.src.file /\ a.src.idx < b.src.idx
              \/ a.src.file # b.src.file /\ NameLess[a.src.file][b.src.file]

\* a first run wrote the records of 2.csv and lap_2.csv, which tie on lap
\* number and session time and differ in the car ahead
C20_Witness ==
  /\ pc = "done" /\ wrote /\ ~rerun
  /\ "SessionTime" \in artifact.cols
  /\ \E i, j \in 1..Len(artifact.rows) :
       /\ i < j
       /\ artifact.rows[i].src.file = "2.csv"
       /\ artifact.rows[j].src.file = "lap_2.csv"
       /\ artifact.rows[i].LapNumber = artifact.rows[j].LapNumber
       /\ artifact.rows[i].SessionTime = artifact.rows[j].SessionTime
       /\ artifact.rows[i].DriverAhead # artifact.rows[j].DriverAhead

----------------------------------------------------------------------------
(* The four scripts side by side *)

\* the records without the Driver tag and without provenance
Untagged(rows) ==
  [i \in 1..Len(rows) |->
     [LapNumber |-> rows[i].LapNumber,
      DriverAhead |-> rows[i].DriverAhead,
      DistanceToDriverAhead |-> rows[i].DistanceToDriverAhead,
      SessionTime |-> rows[i].SessionTime]]

\* C21: over regular lap files lap_<n>.csv with all columns under their
\* canonical names, every script ends without raising and writes the records
\* each of the four scripts computes from these files, in the same order, the
\* Driver tag apart
C21_ScriptEquivalence ==
  (Finished /\ RegularLapFiles /\ header = OptCols) =>
    /\ pc = "done" /\ wrote
    /\ \A sc \in Scripts :
         Untagged(Canonical(sc, SortedSeqOf(LapFiles))) = Untagged(artifact.rows)

----------------------------------------------------------------------------
(* Properties of the inspection report *)

\* the contexts the report holds for position idx of file f
ContextsAt(f, idx) ==
  {k \in 1..Len(report.context) :
     report.context[k].file = f /\ report.context[k].idx = idx}

\* the positions (from 0) of the records of file f whose car-ahead is null
NullPositions(f) ==
  {idx \in 0..Len(files[f].rows) - 1 : files[f].rows[idx + 1].DriverAhead = Null}

\* C22: a report over lap files with a car-ahead column holds, for every null
\* car-ahead position idx of a parsed file of n records, exactly one context,
\* the records from idx - 5 (at least 0) to idx + 5 (at most n - 1): it holds
\* idx, stays inside the file and has at most 11 records; there is no other
\* context in the report
C22_ContextWindowBounds ==
  (report.exists /\ dirExists /\ HasCol(header, "DriverAhead")) =>
    /\ \A f \in LapFiles :
         files[f].ok =>
           \A idx \in NullPositions(f) :
             /\ Cardinality(ContextsAt(f, idx)) = 1
             /\ \A k \in ContextsAt(f, idx) :
                  LET n == Len(files[f].rows)
                      first == report.context[k].start
                      last == report.context[k].end - 1
                  IN /\ first = (IF idx >= 5 THEN idx - 5 ELSE 0)
                     /\ last = (IF idx + 5 <= n - 1 THEN idx + 5 ELSE n - 1)
                     /\ first <= idx /\ idx <= last
                     /\ 0 <= first /\ last <= n - 1
                     /\ last - first + 1 <= 11
    /\ \A k \in 1..Len(report.context) :
         /\ report.context[k].file \in LapFiles
         /\ report.context[k].idx \in NullPositions(report.context[k].file)

\* the names of fs that pd.read_csv parses, in the order of fs
RECURSIVE Parsed(_)
Parsed(fs) ==
  IF fs = <<>> THEN <<>>
  ELSE (IF files[Head(fs)].ok THEN <<Head(fs)>> ELSE <<>>) \o Parsed(Tail(fs))

\* the null car-ahead values of the files fs together
RECURSIVE NullCount(_)
NullCount(fs) ==
  IF fs = <<>> THEN 0 ELSE Cardinality(NullPositions(Head(fs))) + NullCount(Tail(fs))

\* C23: the summary of a report over an existing directory has one entry per
\* parsed lap file, in the sorted order of the file names: the number of null
\* car-ahead values of the file or, without a car-ahead column, the "column
\* absent" entry; the total is the sum of the numbers
C23_ClosingSummary ==
  (report.exists /\ dirExists) =>
    LET parsed == Parsed(SortedSeqOf(LapFiles)) IN
    /\ Len(report.summary) = Len(parsed)
    /\ \A i \in 1..Len(parsed) :
         /\ report.summary[i].file = parsed[i]
         /\ report.summary[i].miss =
              (IF HasCol(header, "DriverAhead")
               THEN Some(Cardinality(NullPositions(parsed[i])))
               ELSE Null)
    /\ report.total =
         Some(IF HasCol(header, "DriverAhead") THEN NullCount(parsed) ELSE 0)

----------------------------------------------------------------------------
(* Properties of the lap ranking *)

\* the laps are ranked and offered as comparison targets
Ranked == view = "ranked"

\* the time to cover the steps of a lap from the k-th sample on, each step
\* divided by the speed at its end clamped to [0.1, 100] m/s, in 1/PaceScale
\* second
RECURSIVE StepTimes(_, _)
StepTimes(samples, k) ==
  IF k > Len(samples) THEN 0
  ELSE (samples[k].Distance - samples[k - 1].Distance)
         * reciprocal(clip(per_3_6(<<samples[k].Speed, 1>>), <<1, 10>>, <<100, 1>>))
       + StepTimes(samples, k + 1)

\* the estimated time of every lap is the sum of its steps' times, the first
\* sample adding nothing
EstimatesAreStepSums ==
  \A lap \in 1..Len(df_driver.laps) :
    lap_times[lap] =
      StepTimes(sort_by_distance(df_driver.laps[lap], Len(df_driver.laps[lap])), 2)

\* the dashboard offers "2nd best" and "2nd worst"
OffersSeconds == "second_best" \in DOMAIN offered

\* the laps that are faster, and the laps that are slower, than lap
Faster(lap) == {l \in DOMAIN lap_times : lap_times[l] < lap_times[lap]}
Slower(lap) == {l \in DOMAIN lap_times : lap_times[l] > lap_times[lap]}

\* C24 as stated: estimated times are step sums; best has the smallest and
\* worst the largest estimated time; with two laps or more 2nd best differs
\* from best, 2nd worst from worst, and est(best) <= est(2nd best) <=
\* est(2nd worst) <= est(worst); with one lap all four are that lap
C24_LapRanking ==
  Ranked =>
    /\ EstimatesAreStepSums
    /\ \A lap \in DOMAIN lap_times :
         /\ lap_times[offered.best] <= lap_times[lap]
         /\ lap_times[lap] <= lap_times[offered.worst]
    /\ OffersSeconds =>
         /\ Len(lap_times) >= 2 =>
              /\ offered.second_best # offered.best
              /\ offered.second_worst # offered.worst
              /\ lap_times[offered.best] <= lap_times[offered.second_best]
              /\ lap_times[offered.second_best] <= lap_times[offered.second_worst]
              /\ lap_times[offered.second_worst] <= lap_times[offered.worst]
         /\ Len(lap_times) = 1 =>
              /\ offered.best = 1 /\ offered.second_best = 1
              /\ offered.worst = 1 /\ offered.second_worst = 1

\* C24 amended: estimated times are step sums; best is the lowest-numbered
\* lap with the smallest and worst the lowest-numbered lap with the largest
\* estimated time; with two laps or more the time of 2nd best is the second
\* smallest and that of 2nd worst the second largest of the laps' times
\* (equal times counted each), so est(2nd best) <= est(2nd worst) from three
\* laps on; 2nd best differs from best when no lap ties with best, 2nd worst
\* from worst when no lap ties with worst; with one lap all four are that lap
C24_RankingByPosition ==
  Ranked =>
    /\ EstimatesAreStepSums
    /\ Faster(offered.best) = {} /\ Slower(offered.worst) = {}
    /\ \A lap \in DOMAIN lap_times :
         /\ lap_times[lap] = lap_times[offered.best] => offered.best <= lap
         /\ lap_times[lap] = lap_times[offered.worst] => offered.worst <= lap
    /\ OffersSeconds =>
         /\ Len(lap_times) >= 2 =>
              /\ Cardinality(Faster(offered.second_best)) <= 1
              /\ Cardinality(DOMAIN lap_times \ Slower(offered.second_best)) >= 2
              /\ Cardinality(Slower(offered.second_worst)) <= 1
              /\ Cardinality(DOMAIN lap_times \ Faster(offered.second_worst)) >= 2
              /\ Len(lap_times) >= 3 =>
                   lap_times[offered.second_best] <= lap_times[offered.second_worst]
              /\ Cardinality(DOMAIN lap_times \ Slower(offered.best)) = 1
                   => offered.second_best # offered.best
              /\ Cardinality(DOMAIN lap_times \ Faster(offered.worst)) = 1
                   => offered.second_worst # offered.worst
         /\ Len(lap_times) = 1 =>
              /\ offered.best = 1 /\ offered.second_best = 1
              /\ offered.worst = 1 /\ offered.second_worst = 1

\* three laps are ranked of which the second and the third have the smallest
\* estimated time and the first the largest: 2nd best is the other one of the
\* two fastest laps
C24_Witness ==
  /\ Ranked /\ OffersSeconds
  /\ Len(lap_times) = 3
  /\ lap_times[2] = lap_times[3] /\ lap_times[2] < lap_times[1]
  /\ lap_times[2] > 0
  /\ offered.best = 2 /\ offered.worst = 1
  /\ offered.second_best \in {2, 3}
  /\ offered.second_worst \in {2, 3}

----------------------------------------------------------------------------
(* The lap directory *)

\* C25: no step of a run creates, changes or deletes a file of the lap
\* directory, the writing of the report and of the artifact included
C25_ReadOnlyInputs ==
  [][files' = files /\ dirExists' = dirExists /\ header' = header]_vars

\* a run over a directory with lap files has written its report and its
\* artifact
C25_Witness ==
  /\ pc = "done" /\ wrote /\ report.exists /\ artifact.exists
  /\ LapFiles # {}

----------------------------------------------------------------------------
(* The delta curve as a running sum *)

\* the pace of a lap at grid point k, the velocity clamped as the open
\* dashboard clamps it, in 1/PaceScale s/m
PaceAt(rows, k) == reciprocal(ClampedAt(rows, k, VelocityFloor))

\* C26: a plotted curve starts at 0, each later value is the value before it
\* plus the pace of the first lap minus that of the second at this grid point,
\* times the constant grid step; a lap compared with itself gives the
\* all-zero curve
C26_RunningSum ==
  Plotted =>
    /\ delta_time[1] = 0
    /\ \A k \in 2..GridPoints :
         delta_time[k] =
           delta_time[k - 1]
             + (PaceAt(d1, k) - PaceAt(d2, k)) * (dist_common[2] - dist_common[1])
    /\ d1 = d2 => \A k \in 1..GridPoints : delta_time[k] = 0

\* a curve is plotted of two laps whose paces differ at the first grid point:
\* it starts at 0 and leaves 0 at the second point
C26_Witness ==
  /\ Plotted
  /\ Len(d1) = 2 /\ Len(d2) = 2
  /\ PaceAt(d1, 1) # PaceAt(d2, 1)
  /\ delta_time[1] = 0
  /\ delta_time[2] # 0

----------------------------------------------------------------------------
(* The guard of the head-to-head comparison *)

\* C27: once the comparison page has loaded the two artifacts and one of them
\* is missing or has no records, the error is shown and no lap is selected,
\* no grid built and no curve computed
C27_ComparisonGuard ==
  (dashboard = "compare_player" /\ view # "opened"
     /\ (df1.laps = <<>> \/ df2.laps = <<>>)) =>
    /\ view = "error"
    /\ d1 = <<>> /\ d2 = <<>>
    /\ dist_common = <<>> /\ delta_time = <<>>

\* the error is shown for a first driver with two laps and a second driver
\* whose artifact exists and has no records
C27_Witness ==
  /\ dashboard = "compare_player" /\ view = "error"
  /\ Len(df1.laps) = 2
  /\ df2.exists /\ df2.laps = <<>>

----------------------------------------------------------------------------
(* Order of the two phases *)

\* C28: a run that has written the artifact ended normally and its report is
\* there; a run that raised in the merge phase has its report in place, has
\* not written the artifact and left the artifact as it was before the run
C28_ReportBeforeArtifact ==
  /\ wrote => (pc = "done" /\ report.exists)
  /\ pc = "raised" => (report.exists /\ ~wrote /\ artifact = before)

\* a first run has written its report, naming a lap file without a car-ahead
\* column, and then an artifact of two records
C28_Witness ==
  /\ pc = "done" /\ wrote /\ ~rerun
  /\ report.exists /\ ~report.absence
  /\ Len(artifact.rows) = 2
  /\ "DriverAhead" \notin header

----------------------------------------------------------------------------
(* Driver isolation in the all-drivers run *)

\* the raw records, by provenance, of the lap files of a driver directory
RecordsIn(dir) ==
  UNION {{[file |-> f, idx |-> i] : i \in 1..Len(dir[f].rows)} :
           f \in {g \in DOMAIN dir : IsCsv[g]}}

\* the records of artifact a are the records of the lap files of directory
\* dir, each once, and carry Driver = D
OwnRecords(a, dir, D) ==
  a.exists =>
    /\ \A i \in 1..Len(a.rows) :
         /\ a.rows[i].Driver = D
         /\ a.rows[i].src \in RecordsIn(dir)
         /\ LET raw == dir[a.rows[i].src.file].rows[a.rows[i].src.idx]
            IN raw.DriverAhead # Null => a.rows[i].DriverAhead = raw.DriverAhead
    /\ \A s \in RecordsIn(dir) :
         Cardinality({i \in 1..Len(a.rows) : a.rows[i].src = s}) = 1

\* number of the records from the i-th on, of a lap file, without a car ahead
RECURSIVE MissingFrom(_, _)
MissingFrom(rows, i) ==
  IF i > Len(rows) THEN 0
  ELSE (IF rows[i].DriverAhead = Null THEN 1 ELSE 0) + MissingFrom(rows, i + 1)

\* the summary section of report rep has one entry at most per lap file of
\* directory dir, with the count of that file, and no other entry
OwnSummary(rep, dir) ==
  \A k \in 1..Len(rep.summary) :
    LET e == rep.summary[k] IN
    /\ e.file \in DOMAIN dir
    /\ e.miss = Some(MissingFrom(dir[e.file].rows, 1))
    /\ \A j \in 1..Len(rep.summary) : rep.summary[j].file = e.file => j = k

\* C29: in the all-drivers run the merged table and the summary list start
\* empty for each driver directory, an entry that is no directory gets neither
\* report nor artifact, and the artifact and the report of driver D hold the
\* records and the summary entries of the lap files of D's directory only,
\* the records tagged Driver = D
C29_DriverIsolation ==
  script = "GLOBAL" =>
    /\ pc = "reported" => (combined_df = <<>> /\ summary_list = report.summary)
    /\ ~dirExists => (~artifact.exists /\ ~report.exists)
    /\ OwnRecords(artifact, files, driver_path)
    /\ OwnSummary(report, files)
    /\ \A k \in 1..Len(written) :
         LET o == written[k] IN
         /\ ~o.isdir => (~o.artifact.exists /\ ~o.report.exists)
         /\ OwnRecords(o.artifact, o.files, o.name)
         /\ OwnSummary(o.report, o.files)

\* C29 (witness): the artifacts of two drivers are written, each with a record
\* of a lap file lap_2.csv, and both reports have a summary entry
C29_Witness ==
  /\ script = "GLOBAL" /\ pc = "done" /\ wrote
  /\ report.summary # <<>>
  /\ \E i \in 1..Len(artifact.rows) : artifact.rows[i].src.file = "lap_2.csv"
  /\ \E k \in 1..Len(written) :
       /\ written[k].report.summary # <<>>
       /\ \E i \in 1..Len(written[k].artifact.rows) :
            written[k].artifact.rows[i].src.file = "lap_2.csv"

============================================================================
